---- MODULE Spec2Model ----
(***************************************************************************)
(* Model of fishroom/web/handlers.py: the tornado request handlers of the  *)
(* fishroom web front-end.                                                 *)
(*                                                                         *)
(*   - APILongPollingHandler   (long-poll queue, one redis list per token) *)
(*   - ChatLogHandler, TextStoreHandler (history window and permalink)     *)
(*   - MessageStreamHandler    (websocket relay over redis pub/sub)        *)
(*                                                                         *)
(* Every "yield gen.Task(...)" of a coroutine is a point where other       *)
(* handlers and other redis clients run, so a handler is modelled as one   *)
(* action per stretch of code between two yields.  A redis command is      *)
(* atomic at the server.                                                   *)
(***************************************************************************)
EXTENDS Integers, Sequences, FiniteSets, TLC

(***************************************************************************)
(* Bounds of the model.                                                    *)
(***************************************************************************)
MaxLen == 20        \* longest log partition
TicksPerDay == 2    \* clock ticks in a day; tick 0 of a day is its midnight
MaxAppends == 1     \* entries appended to the log store in one run
NumConns == 2       \* websocket connections
MaxClients == 2     \* redis clients opened by the websocket handlers in one run
MaxPublished == 2   \* messages published to room channels in one run
NumTokens == 2      \* API client tokens 1..NumTokens
NumReqs == 2        \* long-poll requests in flight at the same time
MaxMsgs == 2        \* messages enqueued to long-poll queues in one run
MaxBus == 2         \* messages published to the message bus in one run
MaxSeqMsgs == 3     \* messages enqueued for a client polling sequentially

Tokens == 1..NumTokens
Reqs == 1..NumReqs

VARIABLES
    queue,      \* queue[t]: the redis list APIClientManager.queue_key(t)
    waiters,    \* waiters[t]: requests blocked in BLPOP on queue[t], oldest first
    req,        \* req[p]: the long-poll request (coroutine) in slot p
    enqueued,   \* history: enqueued[t] is every message ever pushed to queue[t]
    delivered,  \* history: delivered[t] is the messages of the 200 responses to t
    dropped,    \* history: dropped[t] is what requests failing auth removed
    resp,       \* the response most recently completed: token, status, messages
    store,      \* store[<<room, date>>]: length of the log list of that partition
    now,        \* the clock get_now() reads, in ticks
    appended,   \* how many entries were appended to the log store in this run
    hreq,       \* the history / permalink request of this run
    conn,       \* conn[c]: the websocket handler (MessageStreamHandler) c
    client,     \* client[k]: the k-th redis client made by get_redis()
    published,  \* published[i]: the room the i-th message was published to
    bus,        \* the messages published to MessageBus.CHANNEL, in order
    posted      \* the ingress (POST) request most recently answered

pollVars == <<queue, waiters, req, enqueued, delivered, dropped, resp>>

logVars == <<store, now, appended, hreq>>

relayVars == <<conn, client, published>>

ingressVars == <<bus, posted>>

vars == <<queue, waiters, req, enqueued, delivered, dropped, resp,
          store, now, appended, hreq, conn, client, published, bus, posted>>

\* what the long-poll handler, the history handlers, the websocket relay
\* and the post handlers leave alone
notPoll == <<logVars, relayVars, ingressVars>>
notLog == <<pollVars, relayVars, ingressVars>>
notRelay == <<pollVars, logVars, ingressVars>>
notIngress == <<pollVars, logVars, relayVars>>

(***************************************************************************)
(* Helpers on sequences.                                                   *)
(***************************************************************************)
Range(s) == {s[i] : i \in 1..Len(s)}

RECURSIVE SumLen(_, _)
SumLen(f, S) ==
    IF S = {} THEN 0
    ELSE LET x == CHOOSE y \in S : TRUE
         IN Len(f[x]) + SumLen(f, S \ {x})

(***************************************************************************)
(* APIClientManager.auth: the secret of token t is modelled as t itself;   *)
(* any other key fails.                                                    *)
(***************************************************************************)
Keys == 0..NumTokens

Auth(token_id, token_key) == token_key = token_id

(***************************************************************************)
(* APILongPollingHandler.get                                               *)
(***************************************************************************)
IdleReq ==
    [pc |-> "idle", token |-> 1, fine |-> TRUE, msgs |-> <<>>,
     status |-> 0, finished |-> FALSE, ops |-> {}]

\* The producer side (the core process pushing to a client's queue).  A
\* request blocked in BLPOP is served by the push itself.
Push(t, max) ==
    /\ SumLen(enqueued, Tokens) < max
    /\ LET m == SumLen(enqueued, Tokens) + 1 IN
        /\ enqueued' = [enqueued EXCEPT ![t] = Append(@, m)]
        /\ IF waiters[t] # <<>>
           THEN LET p == Head(waiters[t]) IN
                /\ waiters' = [waiters EXCEPT ![t] = Tail(@)]
                /\ req' = [req EXCEPT ![p] =
                              [@ EXCEPT !.pc = "write", !.msgs = <<m>>]]
                /\ dropped' = IF req[p].fine THEN dropped
                              ELSE [dropped EXCEPT ![t] = @ \cup {m}]
                /\ UNCHANGED queue
           ELSE /\ queue' = [queue EXCEPT ![t] = Append(@, m)]
                /\ UNCHANGED <<waiters, req, dropped>>
    /\ UNCHANGED <<delivered, resp>>
    /\ UNCHANGED notPoll

Enqueue(t) == Push(t, MaxMsgs)

\* What the handler does after "if not fine:" (lines 234-236): the status and
\* finish() are issued, and control falls through to line 238.
AfterAuth(r, ok) ==
    IF ok THEN [r EXCEPT !.pc = "llen", !.fine = TRUE]
    ELSE [r EXCEPT !.pc = "llen", !.fine = FALSE, !.status = 403,
                   !.finished = TRUE]

\* lines 231-238: arguments, auth, queue key; suspends in r.llen
PollStart(p, token_id, token_key) ==
    /\ req[p].pc = "idle"
    /\ \A q \in Reqs : q < p => req[q].pc # "idle"
    /\ req' = [req EXCEPT ![p] =
                 AfterAuth([IdleReq EXCEPT !.token = token_id],
                           Auth(token_id, token_key))]
    /\ UNCHANGED <<queue, waiters, enqueued, delivered, dropped, resp>>
    /\ UNCHANGED notPoll

\* line 239 resumes with l; lines 240-245 up to the next suspension
PollLlen(p) ==
    /\ req[p].pc = "llen"
    /\ LET n == Len(queue[req[p].token]) IN
       req' = [req EXCEPT ![p] =
                 [@ EXCEPT !.ops = @ \cup {"llen"},
                           !.pc = IF n > 0 THEN "lrange" ELSE "blpop"]]
    /\ UNCHANGED <<queue, waiters, enqueued, delivered, dropped, resp>>
    /\ UNCHANGED notPoll

\* line 242: LRANGE queue 0 -1 executes at the server
PollLrange(p) ==
    /\ req[p].pc = "lrange"
    /\ req' = [req EXCEPT ![p] =
                 [@ EXCEPT !.msgs = queue[req[p].token],
                           !.ops = @ \cup {"lrange"}, !.pc = "delete"]]
    /\ UNCHANGED <<queue, waiters, enqueued, delivered, dropped, resp>>
    /\ UNCHANGED notPoll

\* line 243: pr.delete(queue) on the second connection
PollDelete(p) ==
    /\ req[p].pc = "delete"
    /\ LET t == req[p].token IN
        /\ queue' = [queue EXCEPT ![t] = <<>>]
        /\ dropped' = IF req[p].fine THEN dropped
                      ELSE [dropped EXCEPT ![t] = @ \cup Range(queue[t])]
    /\ req' = [req EXCEPT ![p] =
                 [@ EXCEPT !.ops = @ \cup {"delete"}, !.pc = "write"]]
    /\ UNCHANGED <<waiters, enqueued, delivered, resp>>
    /\ UNCHANGED notPoll

\* line 245: BLPOP queue timeout=10 reaches the server: it pops at once when
\* the list is not empty, otherwise the client blocks.
PollBlpop(p) ==
    /\ req[p].pc = "blpop"
    /\ LET t == req[p].token IN
       IF queue[t] # <<>>
       THEN /\ queue' = [queue EXCEPT ![t] = Tail(@)]
            /\ req' = [req EXCEPT ![p] =
                         [@ EXCEPT !.msgs = <<Head(queue[t])>>,
                                   !.ops = @ \cup {"blpop"}, !.pc = "write"]]
            /\ dropped' = IF req[p].fine THEN dropped
                          ELSE [dropped EXCEPT ![t] = @ \cup {Head(queue[t])}]
            /\ UNCHANGED waiters
       ELSE /\ waiters' = [waiters EXCEPT ![t] = Append(@, p)]
            /\ req' = [req EXCEPT ![p] =
                         [@ EXCEPT !.ops = @ \cup {"blpop"}, !.pc = "blocked"]]
            /\ UNCHANGED <<queue, dropped>>
    /\ UNCHANGED <<enqueued, delivered, resp>>
    /\ UNCHANGED notPoll

\* blpop without its timeout: the request stays blocked
PollBlocksForever(p) ==
    /\ req[p].pc = "blocked"
    /\ UNCHANGED vars

\* line 245-247: the BLPOP timeout elapses with nothing pushed: ret is None
PollTimeout(p) ==
    /\ req[p].pc = "blocked"
    /\ waiters' = [waiters EXCEPT ![req[p].token] =
                      SelectSeq(@, LAMBDA x : x # p)]
    /\ req' = [req EXCEPT ![p] = [@ EXCEPT !.msgs = <<>>, !.pc = "write"]]
    /\ UNCHANGED <<queue, enqueued, delivered, dropped, resp>>
    /\ UNCHANGED notPoll

\* lines 249-251: write() after finish() raises, so a request that already
\* finished with 403 sends nothing more.  The slot is free again afterwards.
PollWrite(p) ==
    /\ req[p].pc = "write"
    /\ IF req[p].finished
       THEN /\ resp' = [token |-> req[p].token, status |-> req[p].status,
                        msgs |-> <<>>]
            /\ UNCHANGED delivered
       ELSE /\ resp' = [token |-> req[p].token, status |-> 200,
                        msgs |-> req[p].msgs]
            /\ delivered' = [delivered EXCEPT ![req[p].token] = @ \o req[p].msgs]
    /\ req' = [req EXCEPT ![p] = IdleReq]
    /\ UNCHANGED <<queue, waiters, enqueued, dropped>>
    /\ UNCHANGED notPoll

PollNext ==
    \/ \E t \in Tokens : Enqueue(t)
    \/ \E p \in Reqs, t \in Tokens, k \in Keys : PollStart(p, t, k)
    \/ \E p \in Reqs : PollLlen(p)
    \/ \E p \in Reqs : PollLrange(p)
    \/ \E p \in Reqs : PollDelete(p)
    \/ \E p \in Reqs : PollBlpop(p)
    \/ \E p \in Reqs : PollTimeout(p)
    \/ \E p \in Reqs : PollWrite(p)


\* The polls of one client (token 1): two requests at a time, each with the
\* right key or a wrong one.
LiveReqs == {1, 2}
LiveKeys == {0, 1}

PollLiveNext ==
    \/ Enqueue(1)
    \/ \E p \in LiveReqs, k \in LiveKeys : PollStart(p, 1, k)
    \/ \E p \in LiveReqs : PollLlen(p)
    \/ \E p \in LiveReqs : PollLrange(p)
    \/ \E p \in LiveReqs : PollDelete(p)
    \/ \E p \in LiveReqs : PollBlpop(p)
    \/ \E p \in LiveReqs : PollTimeout(p)
    \/ \E p \in LiveReqs : PollWrite(p)

\* One client (token 1) polling with its key, one request after another.
EnqueueSeq == Push(1, MaxSeqMsgs)

PollSeqNext ==
    \/ EnqueueSeq
    \/ PollStart(1, 1, 1)
    \/ PollLlen(1)
    \/ PollLrange(1)
    \/ PollDelete(1)
    \/ PollBlpop(1)
    \/ PollTimeout(1)
    \/ PollWrite(1)

\* The redis server answers every command, the timer of BLPOP fires, and the
\* IOLoop resumes every coroutine whose reply has arrived.
PollFair ==
    \A p \in LiveReqs :
        /\ WF_vars(PollLlen(p))
        /\ WF_vars(PollLrange(p))
        /\ WF_vars(PollDelete(p))
        /\ WF_vars(PollBlpop(p))
        /\ WF_vars(PollTimeout(p))
        /\ WF_vars(PollWrite(p))

(***************************************************************************)
(* The log store: one redis list per (room, date).  Entries are immutable  *)
(* and append-only, so a partition is determined by its length: the entry  *)
(* at index i is Entry(i), a serialized Message with its opt and receiver  *)
(* fields (pos says which stored entry it is).                             *)
(***************************************************************************)
RetentionDays == 7
DefaultLimit == 15
DatesShown == 7

Bindings == {"linux", "secret"}      \* config["bindings"]
PrivateRooms == {"secret"}           \* config["private_rooms"]
Rooms == Bindings \cup {"nowhere"}

StartDay == RetentionDays + 1        \* the day the clock runs through
LastDay == StartDay + 1              \* the last date a request can name
Days == 0..LastDay
Partitions == Rooms \X Days

\* A numeric query argument (last, limit): absent, a string int() rejects,
\* or the decimal form of an integer.
NoArg == [given |-> FALSE, numeric |-> FALSE, val |-> 0]
NaN == [given |-> TRUE, numeric |-> FALSE, val |-> 0]
IntArg(n) == [given |-> TRUE, numeric |-> TRUE, val |-> n]

\* A flag query argument (json, embedded): absent, empty, or some text.
NoFlag == "<absent>"

\* The date of the path: the word "today" or a day.
TodayArg == [today |-> TRUE, day |-> 0]
DayArg(d) == [today |-> FALSE, day |-> d]

Entry(i) == [pos |-> i, opt |-> "opt", receiver |-> "receiver"]

LogList(room, date) == [i \in 1..store[<<room, date>>] |-> Entry(i - 1)]

\* redis LRANGE key start stop: negative indices count from the end of the
\* list, the range is clipped to the list, and start > stop is empty.
LRange(list, start, stop) ==
    LET n == Len(list)
        s0 == IF start < 0 THEN start + n ELSE start
        s1 == IF s0 < 0 THEN 0 ELSE s0
        e0 == IF stop < 0 THEN stop + n ELSE stop
        e1 == IF e0 >= n THEN n - 1 ELSE e0
    IN IF s1 > e1 \/ s1 >= n THEN <<>> ELSE SubSeq(list, s1 + 1, e1 + 1)

Today == now \div TicksPerDay

Midnight(date) == date * TicksPerDay

TooOldAfterEightDays(date) ==
    now - Midnight(date) > (RetentionDays + 1) * TicksPerDay

\* lines 78-79: get_now() - tz.localize(strptime(date)) > timedelta(days=7)
TooOld(date) == now - Midnight(date) > RetentionDays * TicksPerDay

RoomHiddenUnboundOnly(room) == room \notin Bindings

\* lines 67-68
RoomHidden(room) == room \notin Bindings \/ room \in PrivateRooms

\* python truth of a query argument: absent (the default) and "" are false
Truthy(flag) == flag \notin {NoFlag, ""}

IdleHReq ==
    [pc |-> "idle", handler |-> "none", room |-> "", date |-> 0, at |-> 0,
     args |-> [last |-> NoArg, limit |-> NoArg, embedded |-> NoFlag],
     mlen |-> 0, start |-> 0, last |-> 0, status |-> 0,
     body |-> [kind |-> "none"], reads |-> {}]

Tick ==
    /\ now + 1 < (StartDay + 1) * TicksPerDay
    /\ now' = now + 1
    /\ UNCHANGED <<store, appended, hreq>>
    /\ UNCHANGED notLog

\* The chat logger appends a message to today's partition of a room.
AppendLog(room) ==
    /\ appended < MaxAppends
    /\ store[<<room, Today>>] < MaxLen
    /\ store' = [store EXCEPT ![<<room, Today>>] = @ + 1]
    /\ appended' = appended + 1
    /\ UNCHANGED <<now, hreq>>
    /\ UNCHANGED notLog

(***************************************************************************)
(* ChatLogHandler.get                                                      *)
(***************************************************************************)
\* lines 67-87: access check, "today", retention check, key; suspends in
\* r.llen.  h is the fresh request.
ChatLogChecked(h, room, dateArg) ==
    LET date == IF dateArg.today THEN Today ELSE dateArg.day IN
    IF RoomHidden(room)
    THEN [h EXCEPT !.pc = "done", !.status = 404,
                   !.body = [kind |-> "Room not found"]]
    ELSE IF TooOld(date)
    THEN [h EXCEPT !.pc = "done", !.date = date, !.status = 403,
                   !.body = [kind |-> "Dark History Coverred"]]
    ELSE [h EXCEPT !.pc = "llen", !.date = date]

ChatLogStart(room, dateArg) ==
    /\ hreq.pc = "idle"
    /\ hreq' = ChatLogChecked(
                  [IdleHReq EXCEPT !.handler = "chatlog", !.room = room,
                                   !.at = now,
                                   !.date = IF dateArg.today THEN Today
                                            ELSE dateArg.day],
                  room, dateArg)
    /\ UNCHANGED <<store, now, appended>>
    /\ UNCHANGED notLog

\* lines 89-92: the window [start, last] from the arguments and mlen
WindowLast(lastArg, mlen) ==
    (IF lastArg.given THEN lastArg.val ELSE mlen) - 1

WindowLimit(limitArg, embedded, mlen) ==
    IF limitArg.given THEN limitArg.val
    ELSE IF Truthy(embedded) THEN DefaultLimit ELSE mlen

Max(a, b) == IF a >= b THEN a ELSE b

WindowStartOffByOne(last, limit) == Max(last - limit, 0)

WindowStart(last, limit) == Max(last - limit + 1, 0)

\* lines 109-110
DatesList == {Today - i : i \in 0..(DatesShown - 1)}

\* line 87 resumes with mlen; lines 89-94 and either the suspension in
\* r.lrange (json) or lines 106-125 (the html page).
ChatLogLlen(lastArg, limitArg, embedded, json) ==
    /\ hreq.pc = "llen"
    /\ LET mlen == store[<<hreq.room, hreq.date>>]
           h == [hreq EXCEPT !.mlen = mlen, !.reads = @ \cup {"llen"},
                             !.args = [last |-> lastArg, limit |-> limitArg,
                                       embedded |-> embedded]]
       IN
       IF (lastArg.given /\ ~lastArg.numeric)
          \/ (limitArg.given /\ ~limitArg.numeric)
       THEN \* int() raises ValueError: the request ends as a server error
            hreq' = [h EXCEPT !.pc = "done", !.status = 500,
                              !.body = [kind |-> "error"]]
       ELSE LET last == WindowLast(lastArg, mlen)
                limit == WindowLimit(limitArg, embedded, mlen)
                start == WindowStart(last, limit)
            IN IF Truthy(json)
               THEN hreq' = [h EXCEPT !.pc = "lrange", !.start = start,
                                      !.last = last]
               ELSE hreq' = [h EXCEPT !.pc = "done", !.start = start,
                                      !.last = last, !.status = 200,
                                      !.body = [kind |-> "html",
                                                next_id |-> mlen,
                                                limit |-> limit,
                                                dates |-> DatesList]]
    /\ UNCHANGED <<store, now, appended>>
    /\ UNCHANGED notLog

\* lines 96-100: zip(range(start, last+1), msgs) numbers the entries it
\* pairs and pops their opt and receiver; entries beyond the zip stay as
\* they were stored.
Project(logs, start, last) ==
    [k \in 1..Len(logs) |->
        IF start + k - 1 <= last
        THEN [pos |-> logs[k].pos, id |-> start + k - 1]
        ELSE logs[k]]

\* line 95 resumes with logs; lines 96-104
ChatLogLrange ==
    /\ hreq.pc = "lrange"
    /\ LET logs == LRange(LogList(hreq.room, hreq.date), hreq.start, hreq.last)
       IN hreq' = [hreq EXCEPT !.pc = "done", !.status = 200,
                               !.reads = @ \cup {"lrange"},
                               !.body = [kind |-> "json",
                                         msgs |-> Project(logs, hreq.start,
                                                          hreq.last)]]
    /\ UNCHANGED <<store, now, appended>>
    /\ UNCHANGED notLog

(***************************************************************************)
(* TextStoreHandler.get                                                    *)
(***************************************************************************)
\* lines 45-47: key, int(msg_id); suspends in r.lrange
TextStoreStart(room, date, msg_id) ==
    /\ hreq.pc = "idle"
    /\ hreq' = [IdleHReq EXCEPT !.pc = "t_lrange", !.handler = "textstore",
                                !.room = room, !.date = date, !.at = now,
                                !.start = msg_id, !.last = msg_id]
    /\ UNCHANGED <<store, now, appended>>
    /\ UNCHANGED notLog

\* lines 47-60: val; 404 when empty, else the message is rendered
TextStoreReply ==
    /\ hreq.pc = "t_lrange"
    /\ LET val == LRange(LogList(hreq.room, hreq.date), hreq.start, hreq.last)
           h == [hreq EXCEPT !.pc = "done", !.reads = @ \cup {"lrange"}]
       IN IF val = <<>>
          THEN hreq' = [h EXCEPT !.status = 404,
                                 !.body = [kind |-> "text not found"]]
          ELSE hreq' = [h EXCEPT !.status = 200,
                                 !.body = [kind |-> "text", msg |-> val[1]]]
    /\ UNCHANGED <<store, now, appended>>
    /\ UNCHANGED notLog

\* The values a request can carry.  The window computation is checked over
\* every integer in WideInts; the whole handler is checked with the few in
\* NarrowInts.
WideInts == -1..(MaxLen + 1)
NarrowInts == {-1, 0, 1, MaxLen}
NumArgs(ints) == {NoArg, NaN} \cup {IntArg(n) : n \in ints}
FlagArgs == {NoFlag, "", "1"}
DateArgs == {TodayArg} \cup {DayArg(d) : d \in Days}
MsgIds == {0, 1, MaxLen - 1, MaxLen}

ChatLogLlenNarrow ==
    /\ hreq.pc = "llen"
    /\ \E la \in NumArgs(NarrowInts), li \in NumArgs(NarrowInts),
       e \in FlagArgs, j \in FlagArgs : ChatLogLlen(la, li, e, j)

ChatLogLlenWide ==
    /\ hreq.pc = "llen"
    /\ \E la \in NumArgs(WideInts), li \in NumArgs(WideInts),
       e \in FlagArgs, j \in FlagArgs : ChatLogLlen(la, li, e, j)

LogNext ==
    \/ Tick
    \/ \E room \in Rooms : AppendLog(room)
    \/ \E room \in Rooms, d \in DateArgs : ChatLogStart(room, d)
    \/ ChatLogLlenNarrow
    \/ ChatLogLrange
    \/ \E room \in Rooms, d \in Days, i \in MsgIds : TextStoreStart(room, d, i)
    \/ TextStoreReply

\* The history window alone: a request for today's log of a public room has
\* passed the checks of lines 67-82 and reads the length next.
WindowNext ==
    \/ AppendLog("linux")
    \/ ChatLogLlenWide
    \/ ChatLogLrange

(***************************************************************************)
(* MessageStreamHandler: a websocket bridged to a redis pub/sub channel.   *)
(*                                                                         *)
(* client[k] is a tornadoredis client: the room whose channel it           *)
(* subscribed, where its SUBSCRIBE stands at the server, the subscribed    *)
(* flag the client sets when it reads the acknowledgement, how many        *)
(* messages had been published when the server registered it (since), and  *)
(* the events the server sent that its listen() loop has not handed to the *)
(* callback yet.  The callback is a bound method of the handler that opened the     *)
(* client, so an event of client k reaches _on_update of client[k].owner.  *)
(***************************************************************************)
Conns == 1..NumConns
None == 0

Event(kind, room, id, want) ==
    [kind |-> kind, room |-> room, id |-> id, want |-> want]

NewConn == [ws |-> "open", r |-> None, redis_chan |-> "", received |-> <<>>]

\* line 197, 213: self.close() starts the closing handshake of an open socket
Closed(h) == IF h.ws = "open" THEN [h EXCEPT !.ws = "closing"] ELSE h

\* write_message: a socket that is closing or closed raises and sends nothing
Written(h, e) ==
    IF h.ws = "open" THEN [h EXCEPT !.received = Append(@, e)] ELSE h

\* lines 191-197 with a text that is not JSON: json.loads raises
OnMessageMalformed(c) ==
    /\ conn[c].ws = "open"
    /\ conn' = [conn EXCEPT ![c] = Closed(@)]
    /\ UNCHANGED <<client, published>>
    /\ UNCHANGED notRelay

\* lines 191-197 with JSON that has no "room": get_redis() has replaced
\* self.r by a new connected client before msg["room"] raises
OnMessageNoRoom(c) ==
    /\ conn[c].ws = "open"
    /\ Len(client) < MaxClients
    /\ client' = Append(client, [owner |-> c, chan |-> "", state |-> "connected",
                                 subscribed |-> FALSE, since |-> 0,
                                 inbox |-> <<>>])
    /\ conn' = [conn EXCEPT ![c] = Closed([@ EXCEPT !.r = Len(client) + 1])]
    /\ UNCHANGED published
    /\ UNCHANGED notRelay

\* the handler after self.r = get_redis() and the start of _listen(room)
Joined(h, k, room) == [h EXCEPT !.r = k, !.redis_chan = room]

\* lines 191-195 and 200-203: a join directive; a new client is made, it
\* becomes self.r, and its SUBSCRIBE is sent
OnMessage(c, room) ==
    /\ conn[c].ws = "open"
    /\ Len(client) < MaxClients
    /\ client' = Append(client, [owner |-> c, chan |-> room,
                                 state |-> "subscribing",
                                 subscribed |-> FALSE, since |-> 0,
                                 inbox |-> <<>>])
    /\ conn' = [conn EXCEPT ![c] = Joined(@, Len(client) + 1, room)]
    /\ UNCHANGED published
    /\ UNCHANGED notRelay

\* the redis server registers the subscription and acknowledges it
BusSubscribe(k) ==
    /\ k \in 1..Len(client)
    /\ client[k].state = "subscribing"
    /\ client' = [client EXCEPT ![k] =
                    [@ EXCEPT !.state = "subscribed",
                              !.since = Len(published),
                              !.inbox = Append(@, Event("subscribe", client[k].chan,
                                                        0, ""))]]
    /\ UNCHANGED <<conn, published>>
    /\ UNCHANGED notRelay

\* the room a connection is joined to when a message is published: the room
\* of its last join directive, if its socket is open
CurrentRoom(c) == IF conn[c].ws = "open" THEN conn[c].redis_chan ELSE ""

\* a message is published to the channel of a room: the server sends it to
\* every client subscribed to the channel
Publish(room) ==
    /\ Len(published) < MaxPublished
    /\ published' = Append(published, room)
    /\ client' = [k \in 1..Len(client) |->
                    IF client[k].state = "subscribed" /\ client[k].chan = room
                    THEN [client[k] EXCEPT !.inbox =
                            Append(@, Event("message", room, Len(published) + 1,
                                            CurrentRoom(client[k].owner)))]
                    ELSE client[k]]
    /\ UNCHANGED conn
    /\ UNCHANGED notRelay

\* _on_update without its last branch
OnUpdateIgnoresDisconnect(h, e) ==
    IF e.kind = "message" THEN Written(h, e)
    ELSE IF e.kind = "subscribe" THEN Written(h, Event("OK", "", 0, ""))
    ELSE h

\* lines 206-213: _on_update(msg) on handler h
OnUpdate(h, e) ==
    IF e.kind = "message" THEN Written(h, e)
    ELSE IF e.kind = "subscribe" THEN Written(h, Event("OK", "", 0, ""))
    ELSE IF e.kind = "disconnect" THEN Closed(h)
    ELSE h

\* line 204: the listen() loop of client k reads the next event and calls
\* the callback; reading the acknowledgement sets the subscribed flag
Deliver(k) ==
    /\ k \in 1..Len(client)
    /\ client[k].inbox # <<>>
    /\ LET e == Head(client[k].inbox) IN
        /\ client' = [client EXCEPT ![k] =
                        [@ EXCEPT !.inbox = Tail(@),
                                  !.subscribed = IF e.kind = "subscribe" THEN TRUE
                                                 ELSE @]]
        /\ conn' = [conn EXCEPT ![client[k].owner] = OnUpdate(@, e)]
    /\ UNCHANGED published
    /\ UNCHANGED notRelay

\* the connection of client k to the redis server drops
BusDisconnect(k) ==
    /\ k \in 1..Len(client)
    /\ client[k].state \in {"connected", "subscribing", "subscribed"}
    /\ client' = [client EXCEPT ![k] =
                    [@ EXCEPT !.state = "disconnected", !.subscribed = FALSE,
                              !.inbox = Append(@, Event("disconnect", "", 0, ""))]]
    /\ UNCHANGED <<conn, published>>
    /\ UNCHANGED notRelay

\* lines 215-219: what on_close does to the redis clients: self.r, if any, is
\* unsubscribed and disconnected
TornDown(h, cl) ==
    IF h.r = None THEN cl
    ELSE [cl EXCEPT ![h.r] = [@ EXCEPT !.state = "disconnected",
                                       !.subscribed = FALSE, !.inbox = <<>>]]

\* the websocket closes (the peer went away, or the closing handshake ended)
OnClose(c) ==
    /\ conn[c].ws \in {"open", "closing"}
    /\ conn' = [conn EXCEPT ![c] = [@ EXCEPT !.ws = "closed"]]
    /\ client' = TornDown(conn[c], client)
    /\ UNCHANGED published
    /\ UNCHANGED notRelay

RelayRooms == Bindings

RelayNext ==
    \/ \E c \in Conns : OnMessageMalformed(c)
    \/ \E c \in Conns : OnMessageNoRoom(c)
    \/ \E c \in Conns, room \in RelayRooms : OnMessage(c, room)
    \/ \E k \in 1..MaxClients : BusSubscribe(k)
    \/ \E room \in RelayRooms : Publish(room)
    \/ \E k \in 1..MaxClients : Deliver(k)
    \/ \E k \in 1..MaxClients : BusDisconnect(k)
    \/ \E c \in Conns : OnClose(c)

\* One connection and the channel of one room: its directives, the
\* acknowledgements and disconnects of the bus, and the end of the socket.
\* (Nothing is published: a message only stands in a client's inbox ahead of
\* the events behind it.)
RelayLiveNext ==
    \/ OnMessageMalformed(1)
    \/ OnMessageNoRoom(1)
    \/ OnMessage(1, "linux")
    \/ \E k \in 1..MaxClients : BusSubscribe(k)
    \/ \E k \in 1..MaxClients : Deliver(k)
    \/ \E k \in 1..MaxClients : BusDisconnect(k)
    \/ OnClose(1)

\* The redis server acknowledges a SUBSCRIBE, the IOLoop hands every event
\* read by listen() to the callback, and the closing handshake started by
\* close() ends.  An open socket need not ever close.
RelayFair ==
    /\ \A k \in 1..MaxClients : WF_vars(BusSubscribe(k)) /\ WF_vars(Deliver(k))
    /\ WF_vars(conn[1].ws = "closing" /\ OnClose(1))

(***************************************************************************)
(* The post handlers (ingress).  Both run without suspending, so a request *)
(* is one action.  A request body is what json.loads makes of it: text     *)
(* that is not JSON, JSON that is not an object (an array, say), or an     *)
(* object with the fields the handler reads.  A nickname is a sequence of  *)
(* characters, so that strip() and the match of ^\w are computed.  An      *)
(* exception that leaves the handler is answered 500 by tornado.           *)
(***************************************************************************)
Contents == {NoFlag, "", "hi"}

Nicknames ==
    {<<>>, <<" ">>, <<" ", "b">>, <<"b", " ">>, <<"#", "b">>, <<"b", "#">>,
     <<"b">>}

RECURSIVE LStrip(_)
LStrip(s) == IF s # <<>> /\ Head(s) = " " THEN LStrip(Tail(s)) ELSE s

RECURSIVE RStrip(_)
RStrip(s) ==
    IF s # <<>> /\ s[Len(s)] = " " THEN RStrip(SubSeq(s, 1, Len(s) - 1)) ELSE s

\* str.strip()
Strip(s) == RStrip(LStrip(s))

\* re.match(r'^\w', sender): the first character is a word character
StartsWithWord(s) == s # <<>> /\ Head(s) \in {"b"}

PublicBodies ==
    {[json |-> k, content |-> NoFlag, nickname |-> <<>>, nick_text |-> TRUE] :
        k \in {"malformed", "array"}}
    \cup {[json |-> "object", content |-> c, nickname |-> n, nick_text |-> TRUE] :
            c \in Contents, n \in Nicknames}
    \cup {[json |-> "object", content |-> c, nickname |-> <<>>,
           nick_text |-> FALSE] : c \in Contents}

\* id 0 is the default "NONE" of an object without id: it is no token
ApiIds == {0, 1}
ApiKeys == {0, 1}

ApiBodies ==
    {[json |-> k, id |-> 0, key |-> 0, content |-> NoFlag] :
        k \in {"empty", "malformed", "array"}}
    \cup {[json |-> "object", id |-> i, key |-> k, content |-> c] :
            i \in ApiIds, k \in ApiKeys, c \in Contents}

NoPost ==
    [handler |-> "none", room |-> "", status |-> 0, msg |-> "", before |-> 0,
     body |-> [json |-> "none"]]

Outcome(status, msg, publish, sender) ==
    [status |-> status, msg |-> msg, publish |-> publish, sender |-> sender]

WebMessageNoRoom(sender, room, content) ==
    [channel |-> "web", sender |-> sender, receiver |-> room, room |-> "",
     content |-> content]

\* lines 172-175: Message(ChannelType.Web, sender, room, content=content, ...,
\* room=room)
WebMessage(sender, room, content) ==
    [channel |-> "web", sender |-> sender, receiver |-> room, room |-> room,
     content |-> content]

\* lines 288-291; sender is the name APIClientManager keeps for the token
ApiMessage(token_id, room, content) ==
    [channel |-> "api", sender |-> <<"b">>, receiver |-> room, room |-> room,
     content |-> content]

\* PostMessageHandler.post, lines 142-165 and 178: the answer, and whether
\* line 177 is reached
PostChecked(body) ==
    IF body.json = "malformed"
    THEN Outcome(400, "Unable to parse JSON.", FALSE, <<>>)
    ELSE IF body.json # "object"
    THEN Outcome(500, "error", FALSE, <<>>)        \* .get: AttributeError
    ELSE IF ~Truthy(body.content)
    THEN Outcome(400, "Cannot send empty message", FALSE, <<>>)
    ELSE IF ~body.nick_text
    THEN Outcome(500, "error", FALSE, <<>>)        \* .strip: AttributeError
    ELSE LET sender == Strip(body.nickname) IN
         IF sender = <<>>
         THEN Outcome(400, "Nickname must be set", FALSE, <<>>)
         ELSE IF ~StartsWithWord(sender)
         THEN Outcome(400, "Invalid char found", FALSE, <<>>)
         ELSE Outcome(200, "OK", TRUE, sender)

\* PostMessageHandler.post
PublicPost(room, body) ==
    /\ Len(bus) < MaxBus
    /\ LET out == PostChecked(body) IN
        /\ bus' = IF out.publish
                  THEN Append(bus, WebMessage(out.sender, room, body.content))
                  ELSE bus
        /\ posted' = [handler |-> "public", room |-> room,
                      status |-> out.status, msg |-> out.msg,
                      before |-> Len(bus), body |-> body]
    /\ UNCHANGED notIngress

\* APIPostMessageHandler.prepare, lines 256-265: self.json_data is set only
\* when the body is JSON; write_json (lines 270-271) writes its keyword
\* arguments and leaves the status alone, and prepare does not finish the
\* request, so post runs afterwards in every case.
ApiPrepared(body) == body.json \in {"array", "object"}

\* APIPostMessageHandler.post, lines 273-295: the answer, and whether line
\* 293 is reached.  write_json takes one positional argument, so the calls
\* of lines 278 and 283 raise TypeError.
ApiPostChecked(body) ==
    IF ~ApiPrepared(body)
    THEN Outcome(500, "error", FALSE, <<>>)    \* self.json_data: AttributeError
    ELSE IF body.json # "object"
    THEN Outcome(500, "error", FALSE, <<>>)    \* .get: AttributeError
    ELSE IF ~(body.id \in Tokens /\ Auth(body.id, body.key))
    THEN Outcome(500, "error", FALSE, <<>>)    \* line 278: TypeError
    ELSE IF ~Truthy(body.content)
    THEN Outcome(500, "error", FALSE, <<>>)    \* line 283: TypeError
    ELSE Outcome(200, "OK", TRUE, <<"b">>)

\* APIPostMessageHandler.prepare and .post
ApiPost(room, body) ==
    /\ Len(bus) < MaxBus
    /\ LET out == ApiPostChecked(body) IN
        /\ bus' = IF out.publish
                  THEN Append(bus, ApiMessage(body.id, room, body.content))
                  ELSE bus
        /\ posted' = [handler |-> "api", room |-> room,
                      status |-> out.status, msg |-> out.msg,
                      before |-> Len(bus), body |-> body]
    /\ UNCHANGED notIngress

IngressRooms == {"linux", "nowhere"}

\* the post handlers, with the chat logger and the queue producer at work
IngressNext ==
    \/ \E room \in IngressRooms, body \in PublicBodies : PublicPost(room, body)
    \/ \E room \in IngressRooms, body \in ApiBodies : ApiPost(room, body)
    \/ AppendLog("linux")
    \/ Enqueue(1)

(***************************************************************************)
(* Specifications: one per component, the other components at rest.        *)
(***************************************************************************)
NoQueues == [t \in Tokens |-> <<>>]
NoResp == [token |-> 0, status |-> 0, msgs |-> <<>>]
Uniform(n) == [p \in Partitions |-> n]
DayStart == StartDay * TicksPerDay

\* every component at rest: empty queues and log, no request, open sockets
InitQuiet ==
    /\ queue = NoQueues
    /\ waiters = NoQueues
    /\ req = [p \in Reqs |-> IdleReq]
    /\ enqueued = NoQueues
    /\ delivered = NoQueues
    /\ dropped = [t \in Tokens |-> {}]
    /\ resp = NoResp
    /\ store = Uniform(0)
    /\ now = DayStart
    /\ appended = 0
    /\ hreq = IdleHReq
    /\ conn = [c \in Conns |-> NewConn]
    /\ client = <<>>
    /\ published = <<>>
    /\ bus = <<>>
    /\ posted = NoPost

InitLog ==
    /\ queue = NoQueues
    /\ waiters = NoQueues
    /\ req = [p \in Reqs |-> IdleReq]
    /\ enqueued = NoQueues
    /\ delivered = NoQueues
    /\ dropped = [t \in Tokens |-> {}]
    /\ resp = NoResp
    /\ \E n \in {0, 1, MaxLen} : store = Uniform(n)
    /\ now = DayStart
    /\ appended = 0
    /\ hreq = IdleHReq
    /\ conn = [c \in Conns |-> NewConn]
    /\ client = <<>>
    /\ published = <<>>
    /\ bus = <<>>
    /\ posted = NoPost

InitWindow ==
    /\ queue = NoQueues
    /\ waiters = NoQueues
    /\ req = [p \in Reqs |-> IdleReq]
    /\ enqueued = NoQueues
    /\ delivered = NoQueues
    /\ dropped = [t \in Tokens |-> {}]
    /\ resp = NoResp
    /\ \E n \in 0..MaxLen : store = Uniform(n)
    /\ now = DayStart
    /\ appended = 0
    /\ hreq = ChatLogChecked(
                 [IdleHReq EXCEPT !.handler = "chatlog", !.room = "linux",
                                  !.at = DayStart, !.date = StartDay],
                 "linux", TodayArg)
    /\ conn = [c \in Conns |-> NewConn]
    /\ client = <<>>
    /\ published = <<>>
    /\ bus = <<>>
    /\ posted = NoPost

Init == InitLog

Next == PollNext \/ LogNext \/ RelayNext \/ IngressNext

Spec == Init /\ [][Next]_vars

SpecPoll == InitQuiet /\ [][PollNext]_vars

SpecLog == InitLog /\ [][LogNext]_vars

SpecWindow == InitWindow /\ [][WindowNext]_vars

SpecRelay == InitQuiet /\ [][RelayNext]_vars

SpecPollLive == InitQuiet /\ [][PollLiveNext]_vars /\ PollFair

SpecRelayLive == InitQuiet /\ [][RelayLiveNext]_vars /\ RelayFair

SpecPollSeq == InitQuiet /\ [][PollSeqNext]_vars

SpecIngress == InitQuiet /\ [][IngressNext]_vars

(***************************************************************************)
(* Claims about the long-poll queue (checked under SpecPoll).              *)
(***************************************************************************)
Quiescent == \A p \in Reqs : req[p].pc = "idle"

\* C1: a long-poll request whose credentials fail auth ends as Forbidden with
\* no further processing: it issues no LLEN, LRANGE, DEL or BLPOP on any
\* queue, removes no entry from any queue, and its response carries no entry.
C1_ForbiddenTouchesNoQueue ==
    /\ \A p \in Reqs :
          (req[p].pc # "idle" /\ ~req[p].fine) => req[p].ops = {}
    /\ \A t \in Tokens : dropped[t] = {}
    /\ resp.status = 403 => resp.msgs = <<>>

\* C2: no message enqueued to a client's queue is lost: once no poll is in
\* flight, every message ever enqueued for the client is still in its queue
\* or was returned in one of its poll responses.  (Entries removed by
\* requests that failed auth, the subject of C1, are left out here, so that
\* what is stated is the drain of authenticated polls alone.)
C2_NoMessageLost ==
    Quiescent =>
        \A t \in Tokens :
            \A m \in Range(enqueued[t]) \ dropped[t] :
                m \in Range(queue[t]) \cup Range(delivered[t])

\* C3: each queue entry is delivered exactly once: no entry appears twice in
\* the poll responses of a client.
C3_DeliveredOnce ==
    \A t \in Tokens :
        \A i, j \in 1..Len(delivered[t]) :
            i # j => delivered[t][i] # delivered[t][j]

\* C11: every authenticated long-poll request terminates; a request that
\* blocked on an empty queue and received no entry leaves the wait with an
\* empty list, and a request that ends with an empty list is answered 200
\* with an empty messages list.
C11_PollTerminates ==
    /\ \A p \in LiveReqs :
          (req[p].pc # "idle" /\ req[p].fine) ~> (req[p].pc = "idle")
    /\ [][\A p \in LiveReqs :
            /\ (req[p].pc = "blocked" /\ req'[p].pc # "blocked"
                   /\ enqueued' = enqueued) =>
                  (req'[p].pc = "write" /\ req'[p].msgs = <<>>)
            /\ (req[p].pc = "write" /\ req[p].fine /\ req[p].msgs = <<>>
                   /\ req'[p].pc = "idle") =>
                  (resp'.status = 200 /\ resp'.msgs = <<>>)]_vars

\* nothing was ever enqueued and a poll was answered 200 with no messages
C11_Witness ==
    /\ resp.token = 1
    /\ resp.status = 200
    /\ resp.msgs = <<>>
    /\ enqueued[1] = <<>>

\* p is the only authenticated poll of client t in flight, and it is blocked
OnlyPollBlocked(p, t) ==
    /\ req[p].pc = "blocked"
    /\ req[p].fine
    /\ req[p].token = t
    /\ \A q \in Reqs \ {p} :
          req[q].pc = "idle" \/ req[q].token # t \/ ~req[q].fine

\* C12: when message M is enqueued for client C while C's poll is blocked on
\* the empty queue, that poll leaves the wait with exactly M and M is not left
\* in the queue; and no message a poll has returned is still in the queue, so
\* that a poll issued right afterwards finds it empty.
C12_BlockedPollGetsMessage ==
    /\ [][\A t \in Tokens, p \in Reqs :
            (OnlyPollBlocked(p, t) /\ Len(enqueued'[t]) = Len(enqueued[t]) + 1)
               => /\ req'[p].pc = "write"
                  /\ req'[p].msgs = <<enqueued'[t][Len(enqueued'[t])]>>
                  /\ queue'[t] = <<>>]_vars
    /\ [](\A t \in Tokens :
            Range(delivered[t]) \cap Range(queue[t]) = {})

\* s is a prefix of t
IsPrefix(s, t) == Len(s) <= Len(t) /\ s = SubSeq(t, 1, Len(s))

\* C20: for a client polling one request after another, the concatenation of
\* the messages lists of its poll responses is a prefix of the sequence of
\* messages enqueued for it.
C20_ResponsesArePrefix ==
    \A t \in Tokens : IsPrefix(delivered[t], enqueued[t])

(***************************************************************************)
(* Claims about history retrieval (SpecWindow, SpecLog).                   *)
(***************************************************************************)
JsonDone ==
    /\ hreq.handler = "chatlog"
    /\ hreq.pc = "done"
    /\ hreq.status = 200
    /\ hreq.body.kind = "json"

\* the stored positions of the entries of a JSON response, in order
Returned == [k \in 1..Len(hreq.body.msgs) |-> hreq.body.msgs[k].pos]

\* the indices a..b, in order
Indices(a, b) == [k \in 1..(b - a + 1) |-> a + k - 1]

Larger(a, b) == IF a > b THEN a ELSE b

\* the limit the request asks for, by the rule for an omitted limit
AskedLimit ==
    IF hreq.args.limit.given THEN hreq.args.limit.val
    ELSE IF hreq.args.embedded \notin {NoFlag, ""} THEN DefaultLimit
    ELSE hreq.mlen

\* C4 as stated: with last = L given (L < mlen) and a limit N >= 1 (given, or
\* 15 if embedded else mlen when omitted), the entries returned are those at
\* indices max(L-N+1, 0) .. L; with last omitted L is mlen-1.  (Stated for
\* L >= 1: at L = 0 the end index the handler computes is negative, which is
\* the subject of C15.)
C4_WindowEndsAtLast ==
    JsonDone =>
        LET L == IF hreq.args.last.given THEN hreq.args.last.val
                 ELSE hreq.mlen - 1
            N == AskedLimit
        IN (1 <= L /\ L < hreq.mlen /\ N >= 1)
              => Returned = Indices(Larger(L - N + 1, 0), L)

\* C4 amended: a given last = L is the index after the window's end: for
\* 1 <= L <= mlen and a limit N >= 1 the entries returned are those at indices
\* max(L-N, 0) .. L-1; with last omitted the window ends at mlen-1; an omitted
\* limit is 15 if embedded is given non-empty, else mlen.
C4_WindowEndsBeforeLast ==
    JsonDone =>
        LET E == IF hreq.args.last.given THEN hreq.args.last.val - 1
                 ELSE hreq.mlen - 1
            N == AskedLimit
        IN (0 <= E /\ E < hreq.mlen /\ N >= 1)
              => Returned = Indices(Larger(E - N + 1, 0), E)

\* mlen = 20, last = 20 (or omitted), limit = 15: the 15 entries 5 .. 19
C4_Witness ==
    /\ JsonDone
    /\ hreq.mlen = 20
    /\ hreq.args.last = IntArg(20)
    /\ hreq.args.limit = IntArg(15)
    /\ Returned = Indices(5, 19)
    /\ Len(Returned) = 15

\* C5: every entry of a JSON history response carries an id equal to its
\* zero-based index in the log and has neither opt nor receiver.
C5_EntriesProjected ==
    JsonDone =>
        \A k \in 1..Len(hreq.body.msgs) :
            /\ DOMAIN hreq.body.msgs[k] = {"pos", "id"}
            /\ hreq.body.msgs[k].id = hreq.body.msgs[k].pos

\* a numeric argument that is given and is not a non-negative integer
Invalid(arg) == arg.given /\ (~arg.numeric \/ arg.val < 0)

\* C13: history retrieval with a last or limit that is non-numeric or negative
\* ends as BadRequest (400) and returns no log entries.
C13_InvalidWindowArgIsBadRequest ==
    (hreq.handler = "chatlog" /\ hreq.pc = "done"
       /\ (Invalid(hreq.args.last) \/ Invalid(hreq.args.limit))) =>
        /\ hreq.status = 400
        /\ hreq.body.kind \notin {"json", "html"}

\* C15: when the window computed for a JSON history request has
\* start > last, the response is the empty list; and the number of entries
\* returned never exceeds last - start + 1.
C15_EmptyWindowWhenStartAfterLast ==
    JsonDone =>
        /\ hreq.start > hreq.last => hreq.body.msgs = <<>>
        /\ Len(hreq.body.msgs) <= Larger(hreq.last - hreq.start + 1, 0)

HiddenRoom == hreq.room \notin Bindings \/ hreq.room \in PrivateRooms

\* C6: history retrieval for a room that is unbound or private ends as 404
\* and reads neither the length nor a range of the log store.
C6_HiddenRoomNotFound ==
    (hreq.handler = "chatlog" /\ HiddenRoom) =>
        /\ hreq.pc = "done"
        /\ hreq.status = 404
        /\ hreq.reads = {}

\* a private room with stored entries for the date asked was answered 404
C6_Witness ==
    /\ hreq.handler = "chatlog"
    /\ hreq.room = "secret"
    /\ store[<<"secret", hreq.date>>] > 0
    /\ hreq.pc = "done"
    /\ hreq.status = 404

\* C7: the permalink retrieval for a room that is unbound or private ends as
\* 404 without reading the log store, and renders no stored message.
C7_PermalinkHiddenRoomNotFound ==
    (hreq.handler = "textstore" /\ HiddenRoom) =>
        /\ hreq.reads = {}
        /\ hreq.pc = "done" => (hreq.status = 404 /\ hreq.body.kind # "text")

AskedToday == hreq.at \div TicksPerDay

\* C8: history retrieval for a visible room and a date more than 7 days before
\* the current date (today - 8 or older) ends as 403 with no read of the log
\* store; a date from today - 6 to today is never answered 403.
C8_Retention ==
    (hreq.handler = "chatlog" /\ ~HiddenRoom) =>
        /\ (AskedToday - hreq.date >= RetentionDays + 1) =>
              (hreq.pc = "done" /\ hreq.status = 403 /\ hreq.reads = {})
        /\ (hreq.date \in {AskedToday - i : i \in 0..(DatesShown - 1)}) =>
              hreq.status # 403

\* today - 8 was asked of a visible room holding entries for it: 403
C8_Witness ==
    /\ hreq.handler = "chatlog"
    /\ hreq.room = "linux"
    /\ hreq.date = AskedToday - 8
    /\ store[<<"linux", hreq.date>>] > 0
    /\ hreq.status = 403
    /\ hreq.reads = {}

(***************************************************************************)
(* Claims about the post handlers (SpecIngress).                           *)
(***************************************************************************)
\* the request most recently answered published n messages
PostPublished(n) == Len(bus) = posted.before + n

\* the credentials of the posted body pass auth
PostedFine == posted.body.id \in Tokens /\ Auth(posted.body.id, posted.body.key)

\* C14: the credentialed ingress answers 400 to an empty or malformed body,
\* 403 to an object whose credentials fail auth, 400 to empty content, and
\* publishes nothing in these cases; a request that passes auth with
\* non-empty content publishes exactly one message.
C14_ApiPostErrors ==
    posted.handler = "api" =>
        /\ posted.body.json \in {"empty", "malformed"} =>
              (posted.status = 400 /\ PostPublished(0))
        /\ (posted.body.json = "object" /\ ~PostedFine) =>
              (posted.status = 403 /\ PostPublished(0))
        /\ (posted.body.json = "object" /\ PostedFine
               /\ posted.body.content \in {NoFlag, ""}) =>
              (posted.status = 400 /\ PostPublished(0))
        /\ (posted.body.json = "object" /\ PostedFine
               /\ posted.body.content \notin {NoFlag, ""}) =>
              PostPublished(1)

\* a step that answers a request of the public-form ingress
PublicPostStep ==
    /\ posted'.handler = "public"
    /\ posted' # posted \/ bus' # bus

\* C19: a public-form post answered 200 has published exactly one message,
\* whose room is the room of the request; one answered 400 has published
\* nothing; malformed JSON, empty content, and a missing or invalid nickname
\* are answered 400; and the step of the post changes neither the log store
\* nor a long-poll queue.
C19_PublicPostPublishesOnce ==
    /\ [](posted.handler = "public" =>
            /\ posted.status = 200 =>
                  /\ PostPublished(1)
                  /\ bus[Len(bus)].room = posted.room
                  /\ bus[Len(bus)].content = posted.body.content
            /\ posted.status = 400 => PostPublished(0)
            /\ (\/ posted.body.json = "malformed"
                \/ /\ posted.body.json = "object"
                   /\ \/ posted.body.content \in {NoFlag, ""}
                      \/ /\ posted.body.nick_text
                         /\ posted.body.nickname \in {<<>>, <<" ">>, <<"#", "b">>})
                  => posted.status = 400)
    /\ [][PublicPostStep =>
            (store' = store /\ queue' = queue /\ waiters' = waiters
               /\ enqueued' = enqueued)]_vars

\* a post to a room was answered 200 and its message is the last on the bus,
\* while the log store and a queue hold entries
C19_Witness ==
    /\ posted.handler = "public"
    /\ posted.status = 200
    /\ posted.room = "nowhere"
    /\ PostPublished(1)
    /\ bus[Len(bus)].room = "nowhere"
    /\ store[<<"linux", Today>>] > 0
    /\ queue[1] # <<>>

(***************************************************************************)
(* Claims about the live relay (SpecRelay).  An entry of conn[c].received  *)
(* is what write_message sent: the event of a published message (its room, *)
(* its number in publish order, and want: the room the connection was      *)
(* joined to when the message was published) or the "OK" of a join.        *)
(***************************************************************************)
Messages(c) == SelectSeq(conn[c].received, LAMBDA e : e.kind = "message")

\* C9: a message published to room R1 is never delivered to a connection
\* whose subscription, when it is published, is to another room R2; this
\* includes a connection that joined R1 earlier and has since sent a join
\* directive for R2.
C9_FanOutIsolation ==
    \A c \in Conns :
        \A i \in 1..Len(Messages(c)) :
            Messages(c)[i].want \in {"", Messages(c)[i].room}

\* C10: (1) every message published to R since the subscription of an open
\* connection joined to R took effect has been forwarded to it or is on its
\* way, and what is forwarded is the published message; (2) the messages of
\* a room reach a connection in the order they were published, each once;
\* (3) a connection closed before a publish receives nothing from it.
C10_RelayDelivery ==
    \A c \in Conns :
        /\ (conn[c].ws = "open" /\ conn[c].r # None
              /\ client[conn[c].r].state = "subscribed") =>
              \A id \in (client[conn[c].r].since + 1)..Len(published) :
                  published[id] = client[conn[c].r].chan =>
                      \/ \E i \in 1..Len(client[conn[c].r].inbox) :
                            client[conn[c].r].inbox[i].id = id
                      \/ \E i \in 1..Len(Messages(c)) : Messages(c)[i].id = id
        /\ \A i \in 1..Len(Messages(c)) :
              /\ Messages(c)[i].id \in 1..Len(published)
              /\ published[Messages(c)[i].id] = Messages(c)[i].room
        /\ \A i, j \in 1..Len(Messages(c)) :
              (i < j /\ Messages(c)[i].room = Messages(c)[j].room) =>
                  Messages(c)[i].id < Messages(c)[j].id
        /\ \A i \in 1..Len(Messages(c)) : Messages(c)[i].want # ""

\* the redis clients opened by connection c that are still connected
OpenClients(c) ==
    {k \in 1..Len(client) :
        client[k].owner = c /\ client[k].state # "disconnected"}

\* C16: a live connection holds at most one bus subscription (one client
\* subscribing or subscribed) at any time.
C16_OneSubscriptionPerConnection ==
    \A c \in Conns :
        Cardinality({k \in OpenClients(c) :
                       client[k].state \in {"subscribing", "subscribed"}}) <= 1

\* C17: after a connection has closed, no bus subscription and no bus client
\* opened by it remains open.
C17_NothingOpenAfterClose ==
    \A c \in Conns : conn[c].ws = "closed" => OpenClients(c) = {}

\* the bus has signalled disconnected on a client opened by connection c
DisconnectSignalled(c) ==
    \E k \in 1..Len(client) :
        /\ client[k].owner = c
        /\ \E i \in 1..Len(client[k].inbox) :
              client[k].inbox[i].kind = "disconnect"

====
